---- MODULE Spec2Model ----
(***************************************************************************)
(* Ethereum bridge queries over the ledger storage                         *)
(* (ethereum_bridge/src/storage/eth_bridge_queries.rs).                    *)
(*                                                                         *)
(* The storage is the state: the persisted bridge status, the block being  *)
(* processed and the last committed block, the recorded first block height *)
(* of each epoch, and the proof-of-stake data the queries read.  Every     *)
(* query of the trait is an operator over that state, and an action that   *)
(* applies it and records what it returned in `ret`.                       *)
(***************************************************************************)
EXTENDS Integers, Sequences, FiniteSets

VARIABLES
    abcipp,                 \* the build: TRUE with feature "abcipp"
    bridge_status,          \* the value stored under active_key()
    block_height,           \* self.block.height
    block_epoch,            \* self.block.epoch
    last_height,            \* self.last_height
    last_epoch,             \* self.last_epoch
    first_block_heights,    \* self.block.pred_epochs.first_block_heights()
    next_epoch_min_start_height,
    active_validators,      \* PoS: epoch -> set of active validators
    bonded_stake,           \* PoS: validator -> bonded stake
    eth_hot_key,            \* PoS: validator -> Option<Epoched<PublicKey>>
    eth_cold_key,           \* PoS: validator -> Option<Epoched<PublicKey>>
    ret                     \* what the last query returned

chain_vars == <<block_height, block_epoch, last_height, last_epoch,
                first_block_heights, next_epoch_min_start_height>>
pos_vars == <<active_validators, bonded_stake, eth_hot_key, eth_cold_key>>
vars == <<abcipp, bridge_status, chain_vars, pos_vars, ret>>

----------------------------------------------------------------------------
(* Bounds of the model *)

\* epochs run from 0 to MaxEpoch
MaxEpoch == 2
\* an epoch holds at most MaxEpochLen blocks
MaxEpochLen == 3
\* the proof-of-stake data covers the epochs 0 to MaxPosEpoch
MaxPosEpoch == 1
\* bonded stakes run from 1 to MaxStake
MaxStake == 2

\* parameters.epoch_duration.min_num_of_blocks
MinNumOfBlocks == 2

Epochs == 0..MaxEpoch
PosEpochs == 0..MaxPosEpoch

\* validator addresses
Validators == {"v1", "v2"}

\* Ethereum addresses, in their order
EthAddressOrder == <<"a", "b", "c">>

----------------------------------------------------------------------------
(* Option<T>: None is the empty sequence, Some(x) the sequence <<x>> *)

None == <<>>
Some(x) == <<x>>
IsSome(o) == o # <<>>
Unwrap(o) == o[1]

Last(s) == s[Len(s)]

----------------------------------------------------------------------------
(* EthBridgeStatus, EthBridgeEnabled, SendValsetUpd *)

Disabled == [kind |-> "Disabled", epoch |-> 0]
EnabledAtGenesis == [kind |-> "AtGenesis", epoch |-> 0]
EnabledAtEpoch(e) == [kind |-> "AtEpoch", epoch |-> e]

EthBridgeStatus ==
    {Disabled, EnabledAtGenesis} \cup {EnabledAtEpoch(e) : e \in Epochs}

SendValsetUpd == {"Now", "AtPrevHeight"}

----------------------------------------------------------------------------
(* The queries of the storage that the bridge queries call *)

get_current_epoch == block_epoch

get_current_decision_height == last_height + 1

is_deciding_offset_within_epoch(height_offset) ==
    IF get_current_epoch = 0
    THEN get_current_decision_height = 1 + height_offset
    ELSE IF first_block_heights = <<>>
         THEN FALSE
         ELSE get_current_decision_height
                  = Last(first_block_heights) + height_offset

----------------------------------------------------------------------------
(* The bridge status *)

check_bridge_status == bridge_status

\* is_bridge_active with `==` for `<=`: active in the activation epoch alone
is_bridge_active_only_at ==
    IF check_bridge_status.kind = "Disabled"
    THEN FALSE
    ELSE IF check_bridge_status.kind = "AtGenesis"
         THEN TRUE
         ELSE check_bridge_status.epoch = get_current_epoch

\* is_bridge_active with `<` for `<=`: active from the epoch after
is_bridge_active_after ==
    IF check_bridge_status.kind = "Disabled"
    THEN FALSE
    ELSE IF check_bridge_status.kind = "AtGenesis"
         THEN TRUE
         ELSE check_bridge_status.epoch < get_current_epoch

is_bridge_active ==
    IF check_bridge_status.kind = "Disabled"
    THEN FALSE
    ELSE IF check_bridge_status.kind = "AtGenesis"
         THEN TRUE
         ELSE check_bridge_status.epoch <= get_current_epoch

----------------------------------------------------------------------------
(* The first block height of the last epoch *)

\* a returned value, or the panic of a failed expect()
Ok(v) == [panicked |-> FALSE, val |-> v]
Panic == [panicked |-> TRUE, val |-> <<>>]

\* get_epoch_start_height without the check of last_epoch
get_epoch_start_height_no_workaround ==
    IF first_block_heights = <<>>
    THEN Panic
    ELSE Ok(Last(first_block_heights))

get_epoch_start_height ==
    IF last_epoch = 0
    THEN Ok(1)
    ELSE IF first_block_heights = <<>>
         THEN Panic
         ELSE Ok(Last(first_block_heights))

----------------------------------------------------------------------------
(* When a validator set update must be sent *)

\* must_send_valset_upd (abcipp) answering true for AtPrevHeight
must_send_valset_upd_abcipp_always(can_send) ==
    IF can_send = "Now"
    THEN is_deciding_offset_within_epoch(1)
    ELSE TRUE

must_send_valset_upd_abcipp(can_send) ==
    IF can_send = "Now"
    THEN is_deciding_offset_within_epoch(1)
    ELSE FALSE

\* must_send_valset_upd (not abcipp) answering false for AtPrevHeight
must_send_valset_upd_not_abcipp_never(can_send) ==
    IF can_send = "AtPrevHeight"
    THEN FALSE
    ELSE is_deciding_offset_within_epoch(1)

must_send_valset_upd_not_abcipp(can_send) ==
    IF can_send = "AtPrevHeight"
    THEN TRUE
    ELSE is_deciding_offset_within_epoch(1)

must_send_valset_upd(can_send) ==
    IF abcipp
    THEN must_send_valset_upd_abcipp(can_send)
    ELSE must_send_valset_upd_not_abcipp(can_send)

----------------------------------------------------------------------------
(* The validators' Ethereum keys *)

\* common::PublicKey: only a secp256k1 key converts to an Ethereum address
Secp256k1(addr) == [kind |-> "secp256k1", addr |-> addr]
Ed25519 == [kind |-> "ed25519", addr |-> "none"]

\* pk.try_into().ok()
try_into_EthAddress(pk) ==
    IF pk.kind = "secp256k1" THEN Some(pk.addr) ELSE None

\* Epoched data: the key assigned from epoch `since` onwards
Epoched(since, pk) == [since |-> since, pk |-> pk]

Epoched_get(epk, epoch) ==
    IF epk.since <= epoch THEN Some(epk.pk) ELSE None

read_validator_eth_hot_key(validator) == eth_hot_key[validator]

read_validator_eth_cold_key(validator) == eth_cold_key[validator]

\* epoch.unwrap_or_else(|| self.get_current_epoch().0)
unwrap_or_current_epoch(epoch) ==
    IF IsSome(epoch) THEN Unwrap(epoch) ELSE get_current_epoch

get_ethbridge_from_namada_addr(validator, epoch) ==
    LET e == unwrap_or_current_epoch(epoch)
        epk == read_validator_eth_hot_key(validator)
    IN  IF ~IsSome(epk)
        THEN None
        ELSE LET pk == Epoched_get(Unwrap(epk), e)
             IN  IF ~IsSome(pk) THEN None
                 ELSE try_into_EthAddress(Unwrap(pk))

get_ethgov_from_namada_addr(validator, epoch) ==
    LET e == unwrap_or_current_epoch(epoch)
        epk == read_validator_eth_cold_key(validator)
    IN  IF ~IsSome(epk)
        THEN None
        ELSE LET pk == Epoched_get(Unwrap(epk), e)
             IN  IF ~IsSome(pk) THEN None
                 ELSE try_into_EthAddress(Unwrap(pk))

EthAddrBook(hot, cold) == [hot_key_addr |-> hot, cold_key_addr |-> cold]

\* get_eth_addr_book that fills a missing governance address with the bridge
\* address
get_eth_addr_book_hot_only(validator, epoch) ==
    LET bridge == get_ethbridge_from_namada_addr(validator, epoch)
        governance == get_ethgov_from_namada_addr(validator, epoch)
    IN  IF ~IsSome(bridge)
        THEN None
        ELSE Some(EthAddrBook(Unwrap(bridge),
                              IF IsSome(governance) THEN Unwrap(governance)
                              ELSE Unwrap(bridge)))

get_eth_addr_book(validator, epoch) ==
    LET bridge == get_ethbridge_from_namada_addr(validator, epoch)
    IN  IF ~IsSome(bridge)
        THEN None
        ELSE LET governance == get_ethgov_from_namada_addr(validator, epoch)
             IN  IF ~IsSome(governance)
                 THEN None
                 ELSE Some(EthAddrBook(Unwrap(bridge), Unwrap(governance)))

----------------------------------------------------------------------------
(* The active validators and their Ethereum addresses *)

WeightedValidator(v) == [address |-> v, bonded_stake |-> bonded_stake[v]]

\* the set of active validators at an epoch
get_active_validators(epoch) ==
    {WeightedValidator(v) : v \in active_validators[unwrap_or_current_epoch(epoch)]}

\* the orders in which a set may be enumerated
Enumerations(S) ==
    {s \in [1..Cardinality(S) -> S] : \A x \in S : \E i \in DOMAIN s : s[i] = x}

get_total_voting_power(epoch) ==
    LET S == get_active_validators(epoch)
        sum[T \in SUBSET S] ==
            IF T = {} THEN 0
            ELSE LET x == CHOOSE y \in T : TRUE
                 IN  x.bonded_stake + sum[T \ {x}]
    IN  sum[S]

\* the iterator, consumed: the entries it yields, in the order `validators`
\* enumerates the active set, up to the first failed expect()
RECURSIVE map_active_validators(_, _)
map_active_validators(validators, epoch) ==
    IF validators = <<>>
    THEN Ok(<<>>)
    ELSE LET validator == Head(validators)
             hot_key_addr ==
                 get_ethbridge_from_namada_addr(validator.address, Some(epoch))
             cold_key_addr ==
                 get_ethgov_from_namada_addr(validator.address, Some(epoch))
         IN  IF ~IsSome(hot_key_addr) \/ ~IsSome(cold_key_addr)
             THEN Panic
             ELSE LET rest == map_active_validators(Tail(validators), epoch)
                      item == <<EthAddrBook(Unwrap(hot_key_addr),
                                            Unwrap(cold_key_addr)),
                                validator.address,
                                validator.bonded_stake>>
                  IN  [panicked |-> rest.panicked,
                       val |-> <<item>> \o rest.val]

\* get_active_eth_addresses that leaves out a validator without an address
\* book
RECURSIVE filter_map_active_validators(_, _)
filter_map_active_validators(validators, epoch) ==
    IF validators = <<>>
    THEN Ok(<<>>)
    ELSE LET validator == Head(validators)
             book == get_eth_addr_book(validator.address, Some(epoch))
             rest == filter_map_active_validators(Tail(validators), epoch)
         IN  IF ~IsSome(book)
             THEN rest
             ELSE Ok(<<<<Unwrap(book), validator.address,
                         validator.bonded_stake>>>> \o rest.val)

get_active_eth_addresses_skipping(epoch, validators) ==
    filter_map_active_validators(validators, unwrap_or_current_epoch(epoch))

get_active_eth_addresses(epoch, validators) ==
    map_active_validators(validators, unwrap_or_current_epoch(epoch))

----------------------------------------------------------------------------
(* The validator set arguments *)

\* collect() into the HashMap: a later entry replaces an earlier one with
\* the same key
RECURSIVE collect(_)
collect(pairs) ==
    IF pairs = <<>>
    THEN <<>>
    ELSE LET m == collect(SubSeq(pairs, 1, Len(pairs) - 1))
             p == Last(pairs)
         IN  [k \in DOMAIN m \cup {p[1]} |-> IF k = p[1] THEN p[2] ELSE m[k]]

Rank(order, x) == CHOOSE i \in DOMAIN order : order[i] = x

\* Ord of EthAddrBook: by hot key address, then by cold key address
EthAddrBook_lt(b1, b2) ==
    \/ Rank(EthAddressOrder, b1.hot_key_addr)
           < Rank(EthAddressOrder, b2.hot_key_addr)
    \/ /\ b1.hot_key_addr = b2.hot_key_addr
       /\ Rank(EthAddressOrder, b1.cold_key_addr)
              < Rank(EthAddressOrder, b2.cold_key_addr)

\* the order of get_sorted: by voting power, descending, then by address book
sorted_before(m, b1, b2) ==
    \/ m[b1] > m[b2]
    \/ m[b1] = m[b2] /\ EthAddrBook_lt(b1, b2)

get_sorted(m) ==
    LET sorted[S \in SUBSET DOMAIN m] ==
            IF S = {} THEN <<>>
            ELSE LET fst == CHOOSE b \in S :
                                \A c \in S \ {b} : sorted_before(m, b, c)
                 IN  <<<<fst, m[fst]>>>> \o sorted[S \ {fst}]
    IN  sorted[DOMAIN m]

RECURSIVE GCD(_, _)
GCD(a, b) == IF b = 0 THEN a ELSE GCD(b, a % b)

\* FractionalVotingPower::new: a ratio in lowest terms, an error when the
\* denominator is zero or the ratio exceeds one
FractionalVotingPower_new(numer, denom) ==
    IF denom = 0 \/ numer > denom
    THEN None
    ELSE Some(<<numer \div GCD(numer, denom), denom \div GCD(numer, denom)>>)

\* the voting power of an entry of ValidatorSetArgs, as a share of the total
EthBridgeVotingPower_from(fraction) == fraction

get_validator_set_args(epoch, validators) ==
    LET e == unwrap_or_current_epoch(epoch)
        addresses == get_active_eth_addresses(Some(e), validators)
    IN  IF addresses.panicked
        THEN Panic
        ELSE LET voting_powers_map ==
                     collect([i \in DOMAIN addresses.val |->
                                 <<addresses.val[i][1], addresses.val[i][3]>>])
                 total_power == get_total_voting_power(Some(e))
                 sorted == get_sorted(voting_powers_map)
                 fractions == [i \in DOMAIN sorted |->
                                  FractionalVotingPower_new(sorted[i][2],
                                                            total_power)]
             IN  IF \E i \in DOMAIN sorted : ~IsSome(fractions[i])
                 THEN Panic
                 ELSE Ok([epoch |-> e,
                          validators |->
                              [i \in DOMAIN sorted |-> sorted[i][1].hot_key_addr],
                          voting_powers |->
                              [i \in DOMAIN sorted |->
                                  EthBridgeVotingPower_from(Unwrap(fractions[i]))]])

----------------------------------------------------------------------------
(* The chain: blocks are begun and committed, epochs advance *)

NoRet == [op |-> "none", args |-> <<>>, panicked |-> FALSE, val |-> <<>>]

\* the record of a call: `val` holds the returned value, and nothing
\* after a panic
Returned(op, args, result) ==
    [op |-> op, args |-> args, panicked |-> result.panicked,
     val |-> IF result.panicked THEN <<>> ELSE <<result.val>>]

\* the first block height of the epoch of the block being processed: the
\* chain starts at height 1, for which 0 is recorded
current_epoch_first_height ==
    IF block_epoch = 0 THEN 1 ELSE Last(first_block_heights)

GenesisChain ==
    /\ block_height = 0
    /\ block_epoch = 0
    /\ last_height = 0
    /\ last_epoch = 0
    /\ first_block_heights = <<0>>
    /\ next_epoch_min_start_height = 1 + MinNumOfBlocks

\* the chain when the first block of epoch e has been committed, every
\* earlier epoch having lasted MinNumOfBlocks blocks
ChainAtEpoch(e) ==
    IF e = 0
    THEN GenesisChain
    ELSE /\ block_height = 1 + e * MinNumOfBlocks
         /\ block_epoch = e
         /\ last_height = 1 + e * MinNumOfBlocks
         /\ last_epoch = e
         /\ first_block_heights =
                <<0>> \o [k \in 1..e |-> 1 + k * MinNumOfBlocks]
         /\ next_epoch_min_start_height = 1 + (e + 1) * MinNumOfBlocks

NoValidators ==
    /\ active_validators = [e \in PosEpochs |-> {}]
    /\ bonded_stake = [v \in Validators |-> 1]
    /\ eth_hot_key = [v \in Validators |-> None]
    /\ eth_cold_key = [v \in Validators |-> None]

Init ==
    /\ abcipp \in BOOLEAN
    /\ bridge_status \in EthBridgeStatus
    /\ GenesisChain
    /\ NoValidators
    /\ ret = NoRet

\* a block is begun: update_epoch(height, time) starts a new epoch when the
\* minimum number of blocks and the minimum duration of the epoch are reached
BeginBlock(time_reached) ==
    /\ block_height = last_height
    /\ LET height == last_height + 1
           new_epoch == height >= next_epoch_min_start_height /\ time_reached
       IN  /\ IF new_epoch
              THEN block_epoch < MaxEpoch
              ELSE height - current_epoch_first_height < MaxEpochLen
           /\ block_height' = height
           /\ IF new_epoch
              THEN /\ block_epoch' = block_epoch + 1
                   /\ next_epoch_min_start_height' = height + MinNumOfBlocks
                   /\ first_block_heights' = Append(first_block_heights, height)
              ELSE UNCHANGED <<block_epoch, next_epoch_min_start_height,
                               first_block_heights>>
    /\ ret' = NoRet
    /\ UNCHANGED <<abcipp, bridge_status, last_height, last_epoch, pos_vars>>

\* the block is committed
Commit ==
    /\ block_height = last_height + 1
    /\ last_height' = block_height
    /\ last_epoch' = block_epoch
    /\ ret' = NoRet
    /\ UNCHANGED <<abcipp, bridge_status, block_height, block_epoch,
                   first_block_heights, next_epoch_min_start_height, pos_vars>>

\* a transaction of the block being processed writes the bridge status
SetBridgeStatus(status) ==
    /\ block_height = last_height + 1
    /\ status # bridge_status
    /\ bridge_status' = status
    /\ ret' = NoRet
    /\ UNCHANGED <<abcipp, chain_vars, pos_vars>>

----------------------------------------------------------------------------
(* The queries, applied: a caller makes one call at a time and takes its   *)
(* result before the next                                                  *)

IsBridgeActive ==
    /\ ret.op = "none"
    /\ ret' = Returned("is_bridge_active", <<>>, Ok(is_bridge_active))
    /\ UNCHANGED <<abcipp, bridge_status, chain_vars, pos_vars>>

GetEpochStartHeight ==
    /\ ret.op = "none"
    /\ ret' = Returned("get_epoch_start_height", <<>>, get_epoch_start_height)
    /\ UNCHANGED <<abcipp, bridge_status, chain_vars, pos_vars>>

MustSendValsetUpd(can_send) ==
    /\ ret.op = "none"
    /\ ret' = Returned("must_send_valset_upd", <<can_send>>,
                       Ok(must_send_valset_upd(can_send)))
    /\ UNCHANGED <<abcipp, bridge_status, chain_vars, pos_vars>>

GetEthAddrBook(validator, epoch) ==
    /\ ret.op = "none"
    /\ ret' = Returned("get_eth_addr_book", <<validator, epoch>>,
                       Ok(get_eth_addr_book(validator, epoch)))
    /\ UNCHANGED <<abcipp, bridge_status, chain_vars, pos_vars>>

GetActiveEthAddresses(epoch) ==
    /\ ret.op = "none"
    /\ \E validators \in Enumerations(get_active_validators(epoch)) :
           ret' = Returned("get_active_eth_addresses", <<epoch, validators>>,
                           get_active_eth_addresses(epoch, validators))
    /\ UNCHANGED <<abcipp, bridge_status, chain_vars, pos_vars>>

GetValidatorSetArgs(epoch) ==
    /\ ret.op = "none"
    /\ \E validators \in Enumerations(get_active_validators(epoch)) :
           ret' = Returned("get_validator_set_args", <<epoch, validators>>,
                           get_validator_set_args(epoch, validators))
    /\ UNCHANGED <<abcipp, bridge_status, chain_vars, pos_vars>>

----------------------------------------------------------------------------
(* The chain and the queries of the bridge status and of the heights *)

Next ==
    \/ \E time_reached \in BOOLEAN : BeginBlock(time_reached)
    \/ Commit
    \/ \E status \in EthBridgeStatus : SetBridgeStatus(status)
    \/ IsBridgeActive
    \/ GetEpochStartHeight
    \/ \E can_send \in SendValsetUpd : MustSendValsetUpd(can_send)

Spec == Init /\ [][Next]_vars

(* The chain keeps producing blocks and nothing writes the bridge status *)

LiveNext ==
    \/ \E time_reached \in BOOLEAN : BeginBlock(time_reached)
    \/ Commit
    \/ IsBridgeActive

LiveSpec ==
    /\ Init
    /\ [][LiveNext]_vars
    /\ WF_vars(\E time_reached \in BOOLEAN : BeginBlock(time_reached))
    /\ WF_vars(Commit)

(* The queries of the validators, over the proof-of-stake data of a chain *)
(* whose validator v1 holds both keys since genesis                       *)

OptionEpoched(pks) ==
    {None} \cup {Some(Epoched(since, pk)) : since \in PosEpochs, pk \in pks}

OptionEpoch == {None} \cup {Some(e) : e \in PosEpochs}

PosInit ==
    /\ abcipp = FALSE
    /\ bridge_status = Disabled
    /\ \E e \in PosEpochs : ChainAtEpoch(e)
    /\ \E from \in [Validators -> 0..(MaxPosEpoch + 1)] :
           active_validators =
               [e \in PosEpochs |-> {v \in Validators : from[v] <= e}]
    /\ bonded_stake \in [Validators -> 1..MaxStake]
    /\ \E epk \in OptionEpoched({Ed25519, Secp256k1("a"), Secp256k1("b")}) :
           eth_hot_key =
               [v \in Validators |->
                   IF v = "v1" THEN Some(Epoched(0, Secp256k1("a"))) ELSE epk]
    /\ \E epk \in OptionEpoched({Secp256k1("c")}) :
           eth_cold_key =
               [v \in Validators |->
                   IF v = "v1" THEN Some(Epoched(0, Secp256k1("c"))) ELSE epk]
    /\ ret = NoRet

PosNext ==
    \/ \E validator \in Validators, epoch \in OptionEpoch :
           GetEthAddrBook(validator, epoch)
    \/ \E epoch \in OptionEpoch : GetActiveEthAddresses(epoch)
    \/ \E epoch \in OptionEpoch : GetValidatorSetArgs(epoch)

PosSpec == PosInit /\ [][PosNext]_vars

----------------------------------------------------------------------------
(* What the claims speak of *)

\* the value the last call returned
RetVal == ret.val[1]

\* the first block of an epoch: height 1 for epoch 0, and the height at
\* which update_epoch began the epoch for every later one
FirstBlockOfEpoch(e) == IF e = 0 THEN 1 ELSE first_block_heights[e + 1]

\* the block being decided is the second block of its epoch. Between two
\* blocks the next block stays in the current epoch while its height is
\* below next_epoch_min_start_height; otherwise it may begin a new epoch,
\* and is then either the first block of that epoch or a later block than
\* the second of the current one
DecidingSecondBlockOfEpoch ==
    /\ \/ block_height = last_height + 1
       \/ last_height + 1 < next_epoch_min_start_height
    /\ last_height + 1 = FirstBlockOfEpoch(block_epoch) + 1

\* the sum of a sequence of fractions <<numerator, denominator>>
RECURSIVE FractionSum(_)
FractionSum(fractions) ==
    IF fractions = <<>>
    THEN <<0, 1>>
    ELSE LET rest == FractionSum(Tail(fractions))
             f == Head(fractions)
         IN  <<f[1] * rest[2] + rest[1] * f[2], f[2] * rest[2]>>

\* C1: is_bridge_active() is false for Disabled, true for Enabled(AtGenesis),
\* and for Enabled(AtEpoch(e)) true exactly when the current epoch is >= e.
C1_IsBridgeActive ==
    ret.op = "is_bridge_active" =>
        /\ ~ret.panicked
        /\ bridge_status = Disabled => RetVal = FALSE
        /\ bridge_status = EnabledAtGenesis => RetVal = TRUE
        /\ \A e \in Epochs :
               bridge_status = EnabledAtEpoch(e) =>
                   (RetVal = TRUE <=> block_epoch >= e)

\* the bridge enabled at an epoch e >= 1, queried at epoch e itself
C1_Witness ==
    /\ ret.op = "is_bridge_active"
    /\ bridge_status.kind = "AtEpoch"
    /\ bridge_status.epoch >= 1
    /\ block_epoch = bridge_status.epoch
    /\ RetVal = TRUE

\* C2: with abcipp, must_send_valset_upd(Now) is true exactly when the block
\* being decided is the second block of its epoch, and
\* must_send_valset_upd(AtPrevHeight) is false at every height.
C2_MustSendAbcipp ==
    (abcipp /\ ret.op = "must_send_valset_upd") =>
        /\ ret.args = <<"Now">> => RetVal = DecidingSecondBlockOfEpoch
        /\ ret.args = <<"AtPrevHeight">> => RetVal = FALSE

\* abcipp, the second block of an epoch after the first being decided
C2_Witness ==
    /\ abcipp
    /\ ret.op = "must_send_valset_upd"
    /\ ret.args = <<"Now">>
    /\ block_epoch >= 1
    /\ DecidingSecondBlockOfEpoch
    /\ RetVal = TRUE

\* C3: without abcipp, must_send_valset_upd(AtPrevHeight) is true at every
\* height, and must_send_valset_upd(Now) is true exactly when the block being
\* decided is the second block of its epoch.
C3_MustSendNotAbcipp ==
    (~abcipp /\ ret.op = "must_send_valset_upd") =>
        /\ ret.args = <<"AtPrevHeight">> => RetVal = TRUE
        /\ ret.args = <<"Now">> => RetVal = DecidingSecondBlockOfEpoch

\* no abcipp, AtPrevHeight asked while the third block of an epoch is decided
C3_Witness ==
    /\ ~abcipp
    /\ ret.op = "must_send_valset_upd"
    /\ ret.args = <<"AtPrevHeight">>
    /\ last_height + 1 = FirstBlockOfEpoch(block_epoch) + 2
    /\ RetVal = TRUE

C5_StartOfLastCommittedEpoch ==
    ret.op = "get_epoch_start_height" =>
        (~ret.panicked /\ RetVal = FirstBlockOfEpoch(last_epoch))

\* C6: when the total active voting power is greater than 0, the
\* voting_powers returned by get_validator_set_args sum to exactly 1.
C6_VotingPowersSumToOne ==
    (/\ ret.op = "get_validator_set_args"
     /\ ~ret.panicked
     /\ get_total_voting_power(Some(RetVal.epoch)) > 0) =>
        LET total == FractionSum(RetVal.voting_powers)
        IN  total[1] = total[2]

\* C7: get_validator_set_args returns the same ValidatorSetArgs for every
\* order in which the active validators are enumerated.
C7_OrderIndependent ==
    ret.op = "get_validator_set_args" =>
        \A validators \in Enumerations(get_active_validators(ret.args[1])) :
            LET other == get_validator_set_args(ret.args[1], validators)
            IN  /\ other.panicked = ret.panicked
                /\ ~ret.panicked => other.val = RetVal

\* C8: get_eth_addr_book returns a value exactly when the bridge address and
\* the governance address lookups both do, and the book then holds the bridge
\* address as hot_key_addr and the governance address as cold_key_addr.
C8_AddrBookIffBoth ==
    ret.op = "get_eth_addr_book" =>
        LET bridge == get_ethbridge_from_namada_addr(ret.args[1], ret.args[2])
            governance == get_ethgov_from_namada_addr(ret.args[1], ret.args[2])
        IN  /\ ~ret.panicked
            /\ IsSome(RetVal) <=> (IsSome(bridge) /\ IsSome(governance))
            /\ IsSome(RetVal) =>
                   /\ Unwrap(RetVal).hot_key_addr = Unwrap(bridge)
                   /\ Unwrap(RetVal).cold_key_addr = Unwrap(governance)

\* the bridge address is there, the governance address is not: no book
C8_Witness ==
    /\ ret.op = "get_eth_addr_book"
    /\ IsSome(get_ethbridge_from_namada_addr(ret.args[1], ret.args[2]))
    /\ ~IsSome(get_ethgov_from_namada_addr(ret.args[1], ret.args[2]))
    /\ RetVal = None

\* a validator holds both Ethereum keys at an epoch, read from the stored
\* keys
HoldsKeysAt(v, e) ==
    /\ IsSome(eth_hot_key[v])
    /\ Unwrap(eth_hot_key[v]).since <= e
    /\ Unwrap(eth_hot_key[v]).pk.kind = "secp256k1"
    /\ IsSome(eth_cold_key[v])
    /\ Unwrap(eth_cold_key[v]).since <= e
    /\ Unwrap(eth_cold_key[v]).pk.kind = "secp256k1"

\* C9: get_active_eth_addresses(epoch) yields exactly one entry per validator
\* active at that epoch (the current epoch when none is given), with the
\* validator's address, bonded stake and hot and cold addresses at that
\* epoch; it panics when an active validator lacks a key at that epoch, and
\* never yields a sequence without that validator.
C9_OneEntryPerActiveValidator ==
    ret.op = "get_active_eth_addresses" =>
        LET e == IF IsSome(ret.args[1]) THEN Unwrap(ret.args[1])
                 ELSE block_epoch
            active == active_validators[e]
        IN  IF \A v \in active : HoldsKeysAt(v, e)
            THEN /\ ~ret.panicked
                 /\ Len(RetVal) = Cardinality(active)
                 /\ \A v \in active :
                        \E i \in DOMAIN RetVal :
                            RetVal[i] =
                                <<EthAddrBook(Unwrap(eth_hot_key[v]).pk.addr,
                                              Unwrap(eth_cold_key[v]).pk.addr),
                                  v, bonded_stake[v]>>
            ELSE ret.panicked

\* two validators are active and one of them lacks a key: the call panics
C9_Witness ==
    /\ ret.op = "get_active_eth_addresses"
    /\ ret.args[1] = None
    /\ Cardinality(active_validators[block_epoch]) = 2
    /\ \E v \in Validators : ~HoldsKeysAt(v, block_epoch)
    /\ ret.panicked

\* C10: while the bridge status is not written and the epoch does not
\* decrease, is_bridge_active() stays true once it is true; and with the
\* status Enabled(AtEpoch(e)) and the epoch advancing, is_bridge_active()
\* becomes true and stays true.
C10_ActivationMonotone ==
    /\ [][(/\ bridge_status' = bridge_status
           /\ block_epoch' >= block_epoch
           /\ is_bridge_active) => is_bridge_active']_vars
    /\ \A e \in Epochs :
           (bridge_status = EnabledAtEpoch(e)) ~> [](is_bridge_active)

\* the bridge enabled at an epoch e >= 1 is found active in a later epoch
C10_Witness ==
    /\ ret.op = "is_bridge_active"
    /\ bridge_status.kind = "AtEpoch"
    /\ bridge_status.epoch >= 1
    /\ block_epoch > bridge_status.epoch
    /\ RetVal = TRUE

====
